---- MODULE Spec2Model ----
(***************************************************************************)
(* Model of tools/train_net.py: the training step of train_epoch (the      *)
(* synchronized path and the gradient-accumulation path, with and without  *)
(* mixed precision) and the epoch loop of train (train, precise BN,        *)
(* checkpoint, evaluation).                                                *)
(*                                                                         *)
(* Gradients are exact rationals num/den; has = FALSE is an absent one.     *)
(* The framework calls (optimizer, GradScaler, DDP no_sync) are modelled   *)
(* by their documented effect on the gradients and by an entry in ops, the *)
(* list of framework calls made so far in the current iteration.           *)
(* Where the framework version decides an outcome (zero_grad leaving None  *)
(* or zeros, update_bn_stats over zero batches) both outcomes are kept.    *)
(***************************************************************************)
EXTENDS Integers, Sequences, FiniteSets, TLC

\* ---------------------------------------------------------------- bounds
MaxEpoch == 2
MaxData == 4
MaxGlobal == 3
MaxPrecise == 1

\* An absent gradient (param.grad is None) and a present one, an exact
\* rational num/den.
NoGrad == [has |-> FALSE, num |-> 0, den |-> 1]

Rat(n) == [has |-> TRUE, num |-> n, den |-> 1]

\* model.named_parameters(): two parameters are enough to have one with a
\* gradient and one without in the same step.
Params == {"p1", "p2"}

\* The gradient of the mean loss of one batch, per parameter; absent for a
\* parameter on a branch of the model the batch did not use.
Batches ==
    { [p \in Params |-> IF p = "p1" THEN Rat(1) ELSE NoGrad],
      [p \in Params |-> IF p = "p1" THEN Rat(2) ELSE Rat(1)],
      [p \in Params |-> IF p = "p1" THEN NoGrad ELSE Rat(2)] }

NoBatch == [p \in Params |-> NoGrad]

\* The loss scales GradScaler.update() may leave behind.
Scales == {2, 4}

VARIABLES
    cfg,               \* the configuration record
    start_epoch,       \* cu.load_train_checkpoint(...)
    data_size,         \* len(train_loader)
    precise_bn_loader, \* [built, len]: built = FALSE is None
    has_bn,            \* len(get_bn_modules(model)) > 0
    set_to_none,       \* whether optimizer.zero_grad() leaves None or zeros
    pc,                \* position in train / train_epoch
    cur_epoch,
    cur_iter,
    batch,             \* the batch of the current iteration (its gradients)
    grad,              \* param.grad of every parameter
    params,            \* number of updates applied to the model parameters
    opt_state,         \* number of updates applied to the optimizer statistics
    loss_scaler,       \* [on, scale, unscaled]: on = FALSE is None
    bn_stats,          \* the normalization statistics held by the model
    is_checkp_epoch,
    is_eval_epoch,
    ops,               \* framework calls of the current iteration, in order
    handed,            \* [stepped, g]: gradients the optimizer stepped with
    blockGrads,        \* batches of the current block of num_iters iterations
    trained,           \* epochs train_epoch was called for, in order
    epochLog,          \* phases run in the current epoch, in order
    bn_batches,        \* batches the last precise-BN recomputation consumed
    saved,             \* the checkpoints written
    evaluated,         \* the evaluations run
    val_size,          \* len(val_loader)
    writer,            \* whether a TensorboardWriter was set up
    val_iter,          \* cur_iter of eval_epoch
    train_meter,       \* the updates train_meter holds since its last reset
    val_meter,         \* the updates val_meter holds since its last reset
    train_report,      \* what train_meter.log_epoch_stats last reported
    val_report,        \* what val_meter.log_epoch_stats last reported
    stat_ops,          \* metric calls of the current iteration, in order
    built,             \* for each object of the trainer: how often it was
                       \* replaced, and the shape it was built for
    reloaded,          \* the shape for which the training state was last loaded
    epoch_params,      \* params as the epoch's first iteration found them
    raised,            \* the step whose exception ended the run; "" if none
    lr,                \* the learning rate the optimizer holds
    tb_steps,          \* the global_step of every training write to tensorboard
    rank,              \* for each data-parallel worker, where it is in train_epoch
    collectives        \* the gradient all-reduces completed by all workers

\* The state of one process running train().
trainVars == << cfg, start_epoch, data_size, precise_bn_loader, has_bn, set_to_none,
           pc, cur_epoch, cur_iter, batch, grad, params, opt_state,
           loss_scaler, bn_stats, is_checkp_epoch, is_eval_epoch, ops, handed,
           blockGrads, trained, epochLog, bn_batches, saved, evaluated,
           val_size, writer, val_iter, train_meter, val_meter, train_report,
           val_report, stat_ops, built, reloaded, epoch_params, raised,
           lr, tb_steps >>

\* The positions of the data-parallel workers of one epoch.
rankVars == << rank, collectives >>

vars == << trainVars, rankVars >>

Min(a, b) == IF a < b THEN a ELSE b

\* ------------------------------------------------- train_epoch, lines 55-58
CurGlobalBatchSize(c) == c.NUM_SHARDS * c.BATCH_SIZE

\* Floor division; only read on the accumulation path.
NumIters(c) == c.GLOBAL_BATCH_SIZE \div CurGlobalBatchSize(c)

\* Mutant of SyncPath: the comparison is strict, so actual = target falls
\* into the accumulation path.
SyncPathStrict(c) == CurGlobalBatchSize(c) > c.GLOBAL_BATCH_SIZE

\* line 94: the synchronized path is taken when actual >= target.
SyncPath(c) == CurGlobalBatchSize(c) >= c.GLOBAL_BATCH_SIZE

\* Mutant of NoSyncIter: the block boundary is taken from cur_iter instead of
\* cur_iter + 1.
NoSyncIterOffByOne(i, n) == i % n # 0

\* line 114: the iteration accumulates locally, inside model.no_sync().
NoSyncIter(i, n) == (i + 1) % n # 0

\* Mutant of SyncIter: the synchronized part runs in every iteration.
SyncIterAlways(i, n) == TRUE

\* line 128: the iteration is the last of its block.
SyncIter(i, n) == (i + 1) % n = 0

\* ---------------------------------------------------- framework effects
\* optimizer.zero_grad()
ZeroGrad(g) == [p \in Params |-> IF set_to_none THEN NoGrad ELSE Rat(0)]

\* loss.backward() / loss_scaler.scale(loss).backward(): adds s times the
\* batch gradient to every parameter the batch used.
Backward(g, b, s) ==
    [p \in Params |->
        IF ~b[p].has THEN g[p]
        ELSE IF ~g[p].has THEN Rat(s * b[p].num)
        ELSE [has |-> TRUE,
              num |-> g[p].num + s * b[p].num * g[p].den,
              den |-> g[p].den]]

\* loss_scaler.unscale_(optimizer): divides every present gradient by scale.
Unscale(g, s) ==
    [p \in Params |->
        IF ~g[p].has THEN g[p]
        ELSE [has |-> TRUE, num |-> g[p].num, den |-> g[p].den * s]]

\* Mutant of DivideGrads: an absent gradient is not skipped but divided as
\* if it were a tensor of zeros.
DivideGradsAll(g, n) ==
    [p \in Params |->
        [has |-> TRUE, num |-> g[p].num, den |-> g[p].den * n]]

\* lines 146-154: param.grad /= num_iters, skipping absent gradients.
DivideGrads(g, n) ==
    [p \in Params |->
        IF ~g[p].has THEN g[p]
        ELSE [has |-> TRUE, num |-> g[p].num, den |-> g[p].den * n]]

NoScaler == [on |-> FALSE, scale |-> 1, unscaled |-> 0]

\* The learning rate a freshly constructed optimizer holds.
NoLr == [set |-> FALSE, num |-> 0, den |-> 1]

NotStepped == [stepped |-> FALSE, g |-> NoBatch, lr |-> NoLr]

\* ------------------------------------------------------------------ Init
\* The configurations that exercise the training step: every combination of
\* shards, batch size and target batch size, with and without mixed precision,
\* over two epochs.
StepConfigs ==
    [ NUM_SHARDS : 1..2,
      BATCH_SIZE : 1..2,
      GLOBAL_BATCH_SIZE : 1..MaxGlobal,
      USE_MIXED_PRECISION : BOOLEAN,
      MAX_EPOCH : {2},
      USE_PRECISE_STATS : {TRUE},
      NUM_BATCHES_PRECISE : {1},
      NUM_GPUS : {1},
      DATASET : {"Kinetics"},
      LONG_CYCLE : {FALSE},
      LONG_CYCLE_SHAPE : {0},
      CHECKPOINT_FILE_PATH : {""} ]

\* The configurations that exercise the phases after train_epoch: every
\* precise-BN setting, over two epochs of a plain synchronized step.
PhaseConfigs ==
    [ NUM_SHARDS : {1},
      BATCH_SIZE : {1},
      GLOBAL_BATCH_SIZE : {1},
      USE_MIXED_PRECISION : {FALSE},
      MAX_EPOCH : {2},
      USE_PRECISE_STATS : BOOLEAN,
      NUM_BATCHES_PRECISE : 0..MaxPrecise,
      NUM_GPUS : {1},
      DATASET : {"Kinetics"},
      LONG_CYCLE : {FALSE},
      LONG_CYCLE_SHAPE : {0},
      CHECKPOINT_FILE_PATH : {""} ]

\* The configurations that exercise the epoch loop: every epoch range, over a
\* synchronized and an accumulating step.
EpochConfigs ==
    [ NUM_SHARDS : {1},
      BATCH_SIZE : {1},
      GLOBAL_BATCH_SIZE : 1..2,
      USE_MIXED_PRECISION : BOOLEAN,
      MAX_EPOCH : 0..MaxEpoch,
      USE_PRECISE_STATS : {TRUE},
      NUM_BATCHES_PRECISE : {1},
      NUM_GPUS : {1},
      DATASET : {"Kinetics"},
      LONG_CYCLE : {FALSE},
      LONG_CYCLE_SHAPE : {0},
      CHECKPOINT_FILE_PATH : {""} ]

\* train, lines 454-543: the state when the epoch loop is entered.
\* Mutant of PreciseBnLoader: train() constructs no precise-BN loader.
PreciseBnLoaderNever(c, bnlen) == [built |-> FALSE, len |-> bnlen]

\* train, lines 496-500: the precise-BN loader is constructed iff
\* BN.USE_PRECISE_STATS is set, and is None otherwise.
PreciseBnLoader(c, bnlen) == [built |-> c.USE_PRECISE_STATS, len |-> bnlen]

\* The ranks of the data-parallel workers.
Workers == { 1, 2 }

\* What build_trainer returns, lines 436-444.
Trainer ==
    { "model", "optimizer", "train_loader", "val_loader", "precise_bn_loader",
      "train_meter", "val_meter" }

InitWith(c, start, size, bnlen, bn, tonone, vsize, tb) ==
    /\ cfg = c
    /\ start_epoch = start
    /\ data_size = size
    /\ precise_bn_loader = PreciseBnLoader(c, bnlen)
    /\ has_bn = bn
    /\ set_to_none = tonone
    /\ pc = "loop"
    /\ cur_epoch = start
    /\ cur_iter = 0
    /\ batch = NoBatch
    /\ grad = [p \in Params |-> NoGrad]
    /\ params = 0
    /\ opt_state = 0
    /\ loss_scaler = IF c.USE_MIXED_PRECISION
                     THEN [on |-> TRUE, scale |-> 2, unscaled |-> 0]
                     ELSE NoScaler
    /\ bn_stats = [kind |-> "loaded", epoch |-> start]
    /\ is_checkp_epoch = FALSE
    /\ is_eval_epoch = FALSE
    /\ ops = << >>
    /\ handed = NotStepped
    /\ blockGrads = << >>
    /\ trained = << >>
    /\ epochLog = << >>
    /\ bn_batches = 0
    /\ saved = {}
    /\ evaluated = {}
    /\ val_size = vsize
    /\ writer = tb
    /\ val_iter = 0
    /\ train_meter = << >>
    /\ val_meter = << >>
    /\ train_report = << >>
    /\ val_report = << >>
    /\ stat_ops = << >>
    /\ built = [o \in Trainer |-> [count |-> 0, shape |-> c.LONG_CYCLE_SHAPE]]
    /\ reloaded = c.LONG_CYCLE_SHAPE
    /\ epoch_params = 0
    /\ raised = ""
    /\ lr = NoLr
    /\ tb_steps = << >>
    /\ rank = [w \in Workers |->
                 [pc |-> "iter", iter |-> 0, entered |-> 0, steps |-> 0,
                  choice |-> << >>]]
    /\ collectives = 0

InitStep ==
    \E c \in StepConfigs, size \in 0..MaxData, tonone \in BOOLEAN :
        InitWith(c, 0, size, 1, TRUE, tonone, 1, FALSE)

InitPhases ==
    \E c \in PhaseConfigs, bnlen \in 0..MaxPrecise, bn \in BOOLEAN :
        InitWith(c, 0, 1, bnlen, bn, TRUE, 1, FALSE)

InitEpochs ==
    \E c \in EpochConfigs, start \in 0..MaxEpoch, size \in {0, 2} :
        InitWith(c, start, size, 1, TRUE, TRUE, 1, FALSE)

\* The configurations that exercise the metrics: every device count, both
\* kinds of dataset, with and without tensorboard, over a plain step.
MetricConfigs ==
    [ NUM_SHARDS : {1},
      BATCH_SIZE : {1},
      GLOBAL_BATCH_SIZE : 1..2,
      USE_MIXED_PRECISION : {FALSE},
      MAX_EPOCH : {2},
      USE_PRECISE_STATS : {TRUE},
      NUM_BATCHES_PRECISE : {1},
      NUM_GPUS : 0..2,
      DATASET : {"Kinetics", "Epickitchens"},
      LONG_CYCLE : {FALSE},
      LONG_CYCLE_SHAPE : {0},
      CHECKPOINT_FILE_PATH : {""} ]

InitMetrics ==
    \E c \in MetricConfigs, vsize \in 0..2, tb \in BOOLEAN :
        InitWith(c, 0, 2, 1, TRUE, TRUE, vsize, tb)

\* The configurations with a multigrid long cycle, over two epochs; the
\* checkpoint to start from is given or not.
LongCycleConfigs ==
    [ NUM_SHARDS : {1},
      BATCH_SIZE : {1},
      GLOBAL_BATCH_SIZE : 1..2,
      USE_MIXED_PRECISION : {FALSE},
      MAX_EPOCH : {2},
      USE_PRECISE_STATS : {TRUE},
      NUM_BATCHES_PRECISE : {1},
      NUM_GPUS : {1},
      DATASET : {"Kinetics"},
      LONG_CYCLE : {TRUE},
      LONG_CYCLE_SHAPE : {0},
      CHECKPOINT_FILE_PATH : {"", "init.pyth"} ]

InitLongCycle ==
    \E c \in LongCycleConfigs, size \in 1..2 :
        InitWith(c, 0, size, 1, TRUE, TRUE, 1, FALSE)

Init ==
    InitStep \/ InitPhases \/ InitEpochs \/ InitMetrics \/ InitLongCycle

\* --------------------------------------------------------------- actions
envVars == << cfg, start_epoch, data_size, precise_bn_loader, has_bn,
              set_to_none, val_size, writer >>

\* The learning rate in use and the steps written to tensorboard.
lrVars == << lr, tb_steps >>

\* Which configuration the trainer's objects come from.
buildVars == << built, reloaded >>

\* The meters, what they reported, and the metric calls of the iteration.
meterVars == << val_iter, train_meter, val_meter, train_report, val_report,
                stat_ops >>

\* What only the phases after train_epoch write.
phaseVars == << bn_batches, saved, evaluated >>

epochVars == << cur_epoch, is_checkp_epoch, is_eval_epoch, trained, epochLog >>

trainState == << params, opt_state >>

Log(op) == ops' = Append(ops, op)

\* model(inputs); loss_fun(preds, labels) in train mode: the normalization
\* layers fold the batch into their running statistics.
Forward ==
    /\ Log("forward")
    /\ bn_stats' = IF has_bn THEN [kind |-> "running", epoch |-> cur_epoch]
                   ELSE bn_stats

\* optimizer.step() with the gradients g.
OptimizerStep(g) ==
    /\ params' = params + 1
    /\ opt_state' = opt_state + 1
    /\ handed' = [stepped |-> TRUE, g |-> g, lr |-> lr]

\* loss_scaler.step(optimizer): unscales the gradients unless unscale_ was
\* called since the last update, then steps the optimizer.
ScalerStep ==
    /\ grad' = IF loss_scaler.unscaled = 0
               THEN Unscale(grad, loss_scaler.scale) ELSE grad
    /\ OptimizerStep(grad')
    /\ Log("scaler_step")

\* loss_scaler.update(): picks the next scale and forgets the unscale_ calls.
ScalerUpdate ==
    /\ \E s \in Scales :
          loss_scaler' = [on |-> TRUE, scale |-> s, unscaled |-> 0]
    /\ Log("scaler_update")

\* meter.update_stats: the meter holds one more update.
UpdateStats(m, e) == Append(m, e)

\* meter.log_epoch_stats: the report covers the updates the meter holds.
LogEpochStats(m) == m

\* meter.reset: the meter holds nothing.
Reset == << >>

\* multigrid.update_long_cycle, lines 546-547: the configuration it returns
\* when it reports a change; the long cycle moves to its next shape, and the
\* batch size with it.
UpdateLongCycle(c, b) ==
    [c EXCEPT !.LONG_CYCLE_SHAPE = @ + 1, !.BATCH_SIZE = b]

\* Mutant of EpochBegin: the loop bound is inclusive.
EpochBeginInclusive ==
    /\ pc = "loop"
    /\ cur_epoch <= cfg.MAX_EPOCH
    /\ pc' = "iter"
    /\ cur_iter' = 0
    /\ trained' = Append(trained, cur_epoch)
    /\ epochLog' = << >>
    /\ epoch_params' = params
    /\ UNCHANGED << envVars, lrVars, rankVars, raised, buildVars, meterVars,
                    phaseVars, cur_epoch, is_checkp_epoch, is_eval_epoch,
                    batch, grad, trainState, loss_scaler, bn_stats, ops,
                    handed, blockGrads >>

\* train, lines 545-548 and 571-574; train_epoch, lines 50-60: an epoch begins
\* with the trainer as it is, either because there is no long cycle or
\* because update_long_cycle reports no change.
EpochBegin ==
    /\ pc = "loop"
    /\ cur_epoch < cfg.MAX_EPOCH
    /\ pc' = "iter"
    /\ cur_iter' = 0
    /\ trained' = Append(trained, cur_epoch)
    /\ epochLog' = << >>
    /\ epoch_params' = params
    /\ UNCHANGED << envVars, lrVars, rankVars, raised, buildVars, meterVars,
                    phaseVars, cur_epoch, is_checkp_epoch, is_eval_epoch,
                    batch, grad, trainState, loss_scaler, bn_stats, ops,
                    handed, blockGrads >>

\* cu.has_checkpoint and cu.get_last_checkpoint, lines 560-561.
HasCheckpoint == saved # {}

LastCheckpoint == CHOOSE r \in saved : \A q \in saved : q.epoch <= r.epoch

\* The checkpoint of epoch e is written under the name of epoch e + 1, which
\* is what line 562 looks for.
NamedFor(r, e) == r.epoch + 1 = e

\* loader.construct_loader, lines 427-431: the samples that came in batches
\* of b come in batches of nb, the last incomplete batch dropped.
LoaderLen(len, b, nb) == (len * b) \div nb

\* Mutant of BuildTrainer: the meters of the old trainer stay in use.
BuildTrainerKeepsMeters(c, size, vsize, bnlen) ==
    /\ built' = [o \in Trainer |->
                   IF o \in { "train_meter", "val_meter" } THEN built[o]
                   ELSE [count |-> built[o].count + 1,
                         shape |-> c.LONG_CYCLE_SHAPE]]
    /\ data_size' = size
    /\ val_size' = vsize
    /\ precise_bn_loader' = [built |-> TRUE, len |-> bnlen]
    /\ UNCHANGED << train_meter, val_meter >>
    /\ grad' = [p \in Params |-> NoGrad]
    /\ lr' = NoLr

\* build_trainer, lines 401-444: every object of the trainer is constructed
\* anew from the configuration c; the precise-BN loader is constructed
\* whatever BN.USE_PRECISE_STATS says.
BuildTrainer(c, size, vsize, bnlen) ==
    /\ built' = [o \in Trainer |->
                   [count |-> built[o].count + 1, shape |-> c.LONG_CYCLE_SHAPE]]
    /\ data_size' = size
    /\ val_size' = vsize
    /\ precise_bn_loader' = [built |-> TRUE, len |-> bnlen]
    /\ train_meter' = Reset
    /\ val_meter' = Reset
    /\ grad' = [p \in Params |-> NoGrad]
    /\ lr' = NoLr

\* cu.load_checkpoint, lines 566-568: model and optimizer take the state the
\* checkpoint holds.
LoadCheckpoint(c, p, bn) ==
    /\ params' = p
    /\ opt_state' = p
    /\ bn_stats' = bn
    /\ reloaded' = c.LONG_CYCLE_SHAPE

\* train, lines 545-574: update_long_cycle reports a change; the trainer is
\* rebuilt and the last checkpoint is loaded into it. The assertion of line
\* 562 and a missing checkpoint file end the run. The calls logged for the
\* last iteration were made by the trainer that is replaced.
EpochRebuild ==
    /\ pc = "loop"
    /\ cur_epoch < cfg.MAX_EPOCH
    /\ cfg.LONG_CYCLE
    /\ \E b \in 1..2 :
          /\ cfg' = UpdateLongCycle(cfg, b)
          /\ BuildTrainer(cfg', LoaderLen(data_size, cfg.BATCH_SIZE, b),
                          val_size, 1)
          /\ IF HasCheckpoint
             THEN IF NamedFor(LastCheckpoint, cur_epoch)
                  THEN /\ LoadCheckpoint(cfg', LastCheckpoint.params,
                                         LastCheckpoint.bn)
                       /\ pc' = "iter"
                  ELSE /\ pc' = "failed"
                       /\ UNCHANGED << trainState, bn_stats, reloaded >>
             ELSE IF cfg.CHECKPOINT_FILE_PATH # ""
                  THEN /\ LoadCheckpoint(cfg', 0,
                              [kind |-> "loaded", epoch |-> start_epoch])
                       /\ pc' = "iter"
                  ELSE /\ pc' = "failed"
                       /\ UNCHANGED << trainState, bn_stats, reloaded >>
    /\ raised' = IF pc' = "failed" THEN "loop" ELSE raised
    /\ cur_iter' = 0
    /\ trained' = IF pc' = "iter" THEN Append(trained, cur_epoch) ELSE trained
    /\ epochLog' = << >>
    /\ epoch_params' = params'
    /\ ops' = << >>
    /\ stat_ops' = << >>
    /\ handed' = NotStepped
    /\ blockGrads' = << >>
    /\ UNCHANGED << start_epoch, has_bn, set_to_none, writer, phaseVars,
                    cur_epoch, is_checkp_epoch, is_eval_epoch, batch,
                    loss_scaler, val_iter, train_report, val_report,
                    rankVars, tb_steps >>

\* optim.get_epoch_lr: the schedule is a function of the position in the
\* run; its value at a position stands for that position, as an exact
\* fraction.
GetEpochLr(e, i, size) == [set |-> TRUE, num |-> e * size + i, den |-> size]

\* Mutant of SetLr: the learning rate is set at the first iteration only.
SetLrOncePerEpoch ==
    lr' = IF cur_iter = 0 THEN GetEpochLr(cur_epoch, 0, data_size) ELSE lr

\* lines 87-89: the learning rate of this iteration is put on the optimizer.
SetLr == lr' = GetEpochLr(cur_epoch, cur_iter, data_size)

\* lines 203 and 210: the step index of the tensorboard writes.
GlobalStep(e, i, size) == size * e + i

\* train_epoch, lines 62-94: the next batch is fetched and moved to the device,
\* the learning rate is set, and the path is chosen.
IterBegin ==
    /\ pc = "iter"
    /\ cur_iter < data_size
    /\ \E b \in Batches :
          /\ batch' = b
          /\ blockGrads' =
                IF ~SyncPath(cfg) /\ cur_iter % NumIters(cfg) # 0
                THEN Append(blockGrads, b) ELSE << b >>
    /\ SetLr
    /\ ops' = << >>
    /\ stat_ops' = << >>
    /\ handed' = NotStepped
    /\ pc' = IF SyncPath(cfg) THEN "sync_forward" ELSE "acc_head"
    /\ UNCHANGED << envVars, tb_steps, rankVars, raised, buildVars,
                    epoch_params, epochVars, phaseVars, cur_iter, grad,
                    trainState, loss_scaler, bn_stats, val_iter, train_meter,
                    val_meter, train_report, val_report >>

\* lines 95-97
SyncForward ==
    /\ pc = "sync_forward"
    /\ Forward
    /\ pc' = "sync_zero_grad"
    /\ UNCHANGED << envVars, lrVars, rankVars, raised, buildVars,
                    epoch_params, meterVars, epochVars, phaseVars, cur_iter,
                    batch, grad, trainState, loss_scaler, handed,
                    blockGrads >>

\* lines 100 and 106
SyncZeroGrad ==
    /\ pc = "sync_zero_grad"
    /\ grad' = ZeroGrad(grad)
    /\ Log("zero_grad")
    /\ pc' = "sync_backward"
    /\ UNCHANGED << envVars, lrVars, rankVars, raised, buildVars,
                    epoch_params, meterVars, epochVars, phaseVars, cur_iter,
                    batch, trainState, loss_scaler, bn_stats, handed,
                    blockGrads >>

\* lines 101 and 107: backward outside no_sync, gradients are all-reduced.
SyncBackward ==
    /\ pc = "sync_backward"
    /\ grad' = Backward(grad, batch, loss_scaler.scale)
    /\ Log("backward_sync")
    /\ pc' = "sync_step"
    /\ UNCHANGED << envVars, lrVars, rankVars, raised, buildVars,
                    epoch_params, meterVars, epochVars, phaseVars, cur_iter,
                    batch, trainState, loss_scaler, bn_stats, handed,
                    blockGrads >>

\* lines 102 and 108
SyncStep ==
    /\ pc = "sync_step"
    /\ IF cfg.USE_MIXED_PRECISION
       THEN /\ ScalerStep
            /\ pc' = "sync_update"
       ELSE /\ OptimizerStep(grad)
            /\ Log("step")
            /\ pc' = "stats"
            /\ UNCHANGED grad
    /\ UNCHANGED << envVars, lrVars, rankVars, raised, buildVars,
                    epoch_params, meterVars, epochVars, phaseVars, cur_iter,
                    batch, loss_scaler, bn_stats, blockGrads >>

\* line 103
SyncUpdate ==
    /\ pc = "sync_update"
    /\ ScalerUpdate
    /\ pc' = "stats"
    /\ UNCHANGED << envVars, lrVars, rankVars, raised, buildVars,
                    epoch_params, meterVars, epochVars, phaseVars, cur_iter,
                    batch, grad, trainState, bn_stats, handed, blockGrads >>

\* The position after line 126: line 128 decides whether the synchronized
\* part of the accumulation path runs.
AfterNoSync == IF SyncIter(cur_iter, NumIters(cfg)) THEN "acc_forward" ELSE "stats"

\* Mutant of AccHead: the gradients are not zeroed when the epoch begins.
AccHeadNoZero ==
    /\ pc = "acc_head"
    /\ UNCHANGED << grad, ops >>
    /\ pc' = IF NoSyncIter(cur_iter, NumIters(cfg))
             THEN "nosync_forward" ELSE AfterNoSync
    /\ UNCHANGED << envVars, lrVars, rankVars, raised, buildVars,
                    epoch_params, meterVars, epochVars, phaseVars, cur_iter,
                    batch, trainState, loss_scaler, bn_stats, handed,
                    blockGrads >>

\* lines 111-114: gradients are zeroed at the first iteration of the epoch.
AccHead ==
    /\ pc = "acc_head"
    /\ IF cur_iter = 0
       THEN grad' = ZeroGrad(grad) /\ Log("zero_grad")
       ELSE UNCHANGED << grad, ops >>
    /\ pc' = IF NoSyncIter(cur_iter, NumIters(cfg))
             THEN "nosync_forward" ELSE AfterNoSync
    /\ UNCHANGED << envVars, lrVars, rankVars, raised, buildVars,
                    epoch_params, meterVars, epochVars, phaseVars, cur_iter,
                    batch, trainState, loss_scaler, bn_stats, handed,
                    blockGrads >>

\* lines 117-120
NoSyncForward ==
    /\ pc = "nosync_forward"
    /\ Forward
    /\ pc' = "nosync_backward"
    /\ UNCHANGED << envVars, lrVars, rankVars, raised, buildVars,
                    epoch_params, meterVars, epochVars, phaseVars, cur_iter,
                    batch, grad, trainState, loss_scaler, handed,
                    blockGrads >>

\* lines 122-126: backward inside model.no_sync(), gradients stay local.
NoSyncBackward ==
    /\ pc = "nosync_backward"
    /\ grad' = Backward(grad, batch, loss_scaler.scale)
    /\ Log("backward_nosync")
    /\ pc' = AfterNoSync
    /\ UNCHANGED << envVars, lrVars, rankVars, raised, buildVars,
                    epoch_params, meterVars, epochVars, phaseVars, cur_iter,
                    batch, trainState, loss_scaler, bn_stats, handed,
                    blockGrads >>

\* lines 131-133
AccForward ==
    /\ pc = "acc_forward"
    /\ Forward
    /\ pc' = "acc_backward"
    /\ UNCHANGED << envVars, lrVars, rankVars, raised, buildVars,
                    epoch_params, meterVars, epochVars, phaseVars, cur_iter,
                    batch, grad, trainState, loss_scaler, handed,
                    blockGrads >>

\* Mutant of AccBackward: the unscale_ call is left out.
AccBackwardNoUnscale ==
    /\ pc = "acc_backward"
    /\ grad' = Backward(grad, batch, loss_scaler.scale)
    /\ Log("backward_sync")
    /\ pc' = "acc_divide"
    /\ UNCHANGED << envVars, lrVars, rankVars, raised, buildVars,
                    epoch_params, meterVars, epochVars, phaseVars, cur_iter,
                    batch, trainState, loss_scaler, bn_stats, handed,
                    blockGrads >>

\* lines 135-139: backward outside no_sync, gradients are all-reduced.
AccBackward ==
    /\ pc = "acc_backward"
    /\ grad' = Backward(grad, batch, loss_scaler.scale)
    /\ Log("backward_sync")
    /\ pc' = IF cfg.USE_MIXED_PRECISION THEN "acc_unscale" ELSE "acc_divide"
    /\ UNCHANGED << envVars, lrVars, rankVars, raised, buildVars,
                    epoch_params, meterVars, epochVars, phaseVars, cur_iter,
                    batch, trainState, loss_scaler, bn_stats, handed,
                    blockGrads >>

\* lines 142-143
AccUnscale ==
    /\ pc = "acc_unscale"
    /\ grad' = Unscale(grad, loss_scaler.scale)
    /\ loss_scaler' = [loss_scaler EXCEPT !.unscaled = @ + 1]
    /\ Log("unscale")
    /\ pc' = "acc_divide"
    /\ UNCHANGED << envVars, lrVars, rankVars, raised, buildVars,
                    epoch_params, meterVars, epochVars, phaseVars, cur_iter,
                    batch, trainState, bn_stats, handed, blockGrads >>

\* lines 146-154
AccDivide ==
    /\ pc = "acc_divide"
    /\ grad' = DivideGrads(grad, NumIters(cfg))
    /\ Log("divide")
    /\ pc' = "acc_step"
    /\ UNCHANGED << envVars, lrVars, rankVars, raised, buildVars,
                    epoch_params, meterVars, epochVars, phaseVars, cur_iter,
                    batch, trainState, loss_scaler, bn_stats, handed,
                    blockGrads >>

\* lines 156-160
AccStep ==
    /\ pc = "acc_step"
    /\ IF cfg.USE_MIXED_PRECISION
       THEN /\ ScalerStep
            /\ pc' = "acc_update"
       ELSE /\ OptimizerStep(grad)
            /\ Log("step")
            /\ pc' = "acc_zero_grad"
            /\ UNCHANGED grad
    /\ UNCHANGED << envVars, lrVars, rankVars, raised, buildVars,
                    epoch_params, meterVars, epochVars, phaseVars, cur_iter,
                    batch, loss_scaler, bn_stats, blockGrads >>

\* line 158
AccUpdate ==
    /\ pc = "acc_update"
    /\ ScalerUpdate
    /\ pc' = "acc_zero_grad"
    /\ UNCHANGED << envVars, lrVars, rankVars, raised, buildVars,
                    epoch_params, meterVars, epochVars, phaseVars, cur_iter,
                    batch, grad, trainState, bn_stats, handed, blockGrads >>

\* Mutant of AccZeroGrad: the gradients are not zeroed after the step.
AccZeroGradSkipped ==
    /\ pc = "acc_zero_grad"
    /\ pc' = "stats"
    /\ UNCHANGED << envVars, lrVars, rankVars, raised, buildVars,
                    epoch_params, meterVars, epochVars, phaseVars, cur_iter,
                    batch, grad, trainState, loss_scaler, bn_stats, ops,
                    handed, blockGrads >>

\* line 162
AccZeroGrad ==
    /\ pc = "acc_zero_grad"
    /\ grad' = ZeroGrad(grad)
    /\ Log("zero_grad")
    /\ pc' = "stats"
    /\ UNCHANGED << envVars, lrVars, rankVars, raised, buildVars,
                    epoch_params, meterVars, epochVars, phaseVars, cur_iter,
                    batch, trainState, loss_scaler, bn_stats, handed,
                    blockGrads >>

\* A metric as it leaves the forward pass: computed on this device only and
\* still on the device.
Metric == [reduced |-> FALSE, host |-> FALSE]

\* Mutant of AllReduce: the values are never combined.
AllReduceNever(c, v) == v

\* lines 172-175, 269-271, 281-283, 295-296 and 331-332: du.all_reduce under
\* its condition.
AllReduce(c, v) == IF c.NUM_GPUS > 1 THEN [v EXCEPT !.reduced = TRUE] ELSE v

\* lines 178-182, 274, 286, 299 and 335: .item() copies the value to the host.
Item(v) == [v EXCEPT !.host = TRUE]

\* The calls that take one group of metrics from the device to the host.
MetricCalls(c) ==
    (IF c.NUM_GPUS > 1 THEN << "all_reduce" >> ELSE << >>) \o << "item" >>

\* train_epoch, lines 164-215, in the order of the code.
TrainStatOps(c, tb) ==
    << "topks_correct" >> \o MetricCalls(c) \o << "update_stats" >>
        \o (IF tb THEN << "add_scalars", "add_scalars" >> ELSE << >>)
        \o << "log_iter_stats" >>

\* eval_epoch, lines 261-357, in the order of the code: the three groups of
\* accuracies of Epickitchens, or the one pair of errors.
ValStatOps(c, tb) ==
    << "forward" >>
        \o (IF c.DATASET = "Epickitchens"
            THEN << "topk_accuracies" >> \o MetricCalls(c)
                    \o << "topk_accuracies" >> \o MetricCalls(c)
                    \o << "multitask_topk_accuracies" >> \o MetricCalls(c)
            ELSE << "topks_correct" >> \o MetricCalls(c))
        \o << "update_stats" >>
        \o (IF tb THEN << "add_scalars" >> ELSE << >>)
        \o << "update_predictions", "log_iter_stats" >>

\* What a meter is handed by update_stats in iteration i of epoch e.
MeterEntry(e, i, v) == [epoch |-> e, iter |-> i, value |-> v]

\* lines 164-215: metrics, meter update and logging; the loop advances.
IterStats ==
    /\ pc = "stats"
    /\ stat_ops' = TrainStatOps(cfg, writer)
    /\ train_meter' = UpdateStats(train_meter,
            MeterEntry(cur_epoch, cur_iter, Item(AllReduce(cfg, Metric))))
    /\ tb_steps' = IF writer
                   THEN Append(tb_steps,
                               GlobalStep(cur_epoch, cur_iter, data_size))
                   ELSE tb_steps
    /\ cur_iter' = cur_iter + 1
    /\ pc' = "iter"
    /\ UNCHANGED << envVars, lr, rankVars, raised, buildVars, epoch_params,
                    epochVars, phaseVars, batch, grad, trainState,
                    loss_scaler, bn_stats, ops, handed, blockGrads, val_iter,
                    val_meter, train_report, val_report >>

TrainIter ==
    \/ IterBegin
    \/ SyncForward \/ SyncZeroGrad \/ SyncBackward \/ SyncStep \/ SyncUpdate
    \/ AccHead \/ NoSyncForward \/ NoSyncBackward
    \/ AccForward \/ AccBackward \/ AccUnscale \/ AccDivide \/ AccStep
    \/ AccUpdate \/ AccZeroGrad
    \/ IterStats

\* Mutant of EpochEnd: the meter is not reset after its epoch is logged.
EpochEndNoReset ==
    /\ pc = "iter"
    /\ cur_iter >= data_size
    /\ train_report' = LogEpochStats(train_meter)
    /\ is_checkp_epoch' \in BOOLEAN
    /\ is_eval_epoch' \in BOOLEAN
    /\ epochLog' = Append(epochLog, "train")
    /\ pc' = "precise_bn"
    /\ UNCHANGED << envVars, lrVars, rankVars, raised, buildVars,
                    epoch_params, phaseVars, cur_epoch, trained, cur_iter,
                    batch, grad, trainState, loss_scaler, bn_stats, ops,
                    handed, blockGrads, val_iter, train_meter, val_meter,
                    val_report, stat_ops >>

\* train_epoch, lines 217-219, and train, lines 578-585: the loader is
\* exhausted, the epoch's statistics are logged and the meter is reset, and
\* the two schedules are asked whether this epoch checkpoints and whether it
\* evaluates.
EpochEnd ==
    /\ pc = "iter"
    /\ cur_iter >= data_size
    /\ train_report' = LogEpochStats(train_meter)
    /\ train_meter' = Reset
    /\ is_checkp_epoch' \in BOOLEAN
    /\ is_eval_epoch' \in BOOLEAN
    /\ epochLog' = Append(epochLog, "train")
    /\ pc' = "precise_bn"
    /\ UNCHANGED << envVars, lrVars, rankVars, raised, buildVars,
                    epoch_params, phaseVars, cur_epoch, trained, cur_iter,
                    batch, grad, trainState, loss_scaler, bn_stats, ops,
                    handed, blockGrads, val_iter, val_meter, val_report,
                    stat_ops >>

\* Mutant of NeedPreciseBN: the statistics are recomputed for checkpoints only.
NeedPreciseBNForCheckpoint ==
    /\ is_checkp_epoch
    /\ cfg.USE_PRECISE_STATS
    /\ has_bn

\* train, lines 588-592
NeedPreciseBN ==
    /\ is_checkp_epoch \/ is_eval_epoch
    /\ cfg.USE_PRECISE_STATS
    /\ has_bn

\* calculate_and_update_precise_bn, lines 377-398: update_bn_stats runs n
\* forward passes in which nothing but the normalization statistics change.
\* What it leaves behind after zero passes is decided by the library; both
\* outcomes are kept.
UpdateBnStats(n) ==
    /\ bn_stats' \in
          IF n > 0
          THEN { [kind |-> "precise", epoch |-> cur_epoch] }
          ELSE { bn_stats, [kind |-> "empty", epoch |-> cur_epoch] }
    /\ bn_batches' = n

\* Mutant of PreciseNumIters: the length of the loader is not looked at.
PreciseNumItersUncapped == cfg.NUM_BATCHES_PRECISE

\* train, line 596: the number of passes asked of update_bn_stats.
PreciseNumIters == Min(cfg.NUM_BATCHES_PRECISE, precise_bn_loader.len)

\* train, lines 587-599. misc.aggregate_sub_bn_stats (line 599) folds the
\* statistics of split normalization layers into their parent layer; it
\* derives them from the statistics just computed and leaves their kind and
\* epoch as they are.
PreciseBN ==
    /\ pc = "precise_bn"
    /\ IF NeedPreciseBN
       THEN IF precise_bn_loader.built
            THEN /\ UpdateBnStats(PreciseNumIters)
                 /\ epochLog' = Append(epochLog, "precise_bn")
                 /\ pc' = "checkpoint"
            ELSE \* len(None) raises
                 /\ pc' = "failed"
                 /\ raised' = "len(precise_bn_loader)"
                 /\ UNCHANGED << bn_stats, bn_batches, epochLog >>
       ELSE /\ pc' = "checkpoint"
            /\ UNCHANGED << bn_stats, bn_batches, epochLog >>
    /\ pc' # "failed" => UNCHANGED raised
    /\ UNCHANGED << envVars, lrVars, rankVars, buildVars, epoch_params,
                    meterVars, cur_epoch, is_checkp_epoch, is_eval_epoch,
                    trained, cur_iter, batch, grad, trainState, loss_scaler,
                    ops, handed, blockGrads, saved, evaluated >>

\* train, lines 601-604: the checkpoint of the epoch holds the model as it is.
SaveCheckpoint ==
    /\ pc = "checkpoint"
    /\ IF is_checkp_epoch
       THEN /\ saved' = saved \cup
                 { [epoch |-> cur_epoch, params |-> params, bn |-> bn_stats] }
            /\ epochLog' = Append(epochLog, "checkpoint")
       ELSE UNCHANGED << saved, epochLog >>
    /\ pc' = "eval"
    /\ UNCHANGED << envVars, lrVars, rankVars, raised, buildVars,
                    epoch_params, meterVars, cur_epoch, is_checkp_epoch,
                    is_eval_epoch, trained, cur_iter, batch, grad, trainState,
                    loss_scaler, bn_stats, bn_batches, ops, handed,
                    blockGrads, evaluated >>

\* train, lines 605-607, eval_epoch, lines 237-238, and the loop's increment
\* when the epoch does not evaluate: eval_epoch runs under torch.no_grad() in
\* eval mode and changes no training state.
EvalEpoch ==
    /\ pc = "eval"
    /\ IF is_eval_epoch
       THEN /\ evaluated' = evaluated \cup
                 { [epoch |-> cur_epoch, params |-> params, bn |-> bn_stats] }
            /\ epochLog' = Append(epochLog, "eval")
            /\ val_iter' = 0
            /\ pc' = "eval_iter"
            /\ UNCHANGED cur_epoch
       ELSE /\ cur_epoch' = cur_epoch + 1
            /\ pc' = "loop"
            /\ UNCHANGED << evaluated, epochLog, val_iter >>
    /\ UNCHANGED << envVars, lrVars, rankVars, raised, buildVars,
                    epoch_params, is_checkp_epoch, is_eval_epoch, trained,
                    cur_iter, batch, grad, trainState, loss_scaler, bn_stats,
                    bn_batches, ops, handed, blockGrads, saved, train_meter,
                    val_meter, train_report, val_report, stat_ops >>

\* eval_epoch, lines 240-357: one iteration over val_loader.
EvalIter ==
    /\ pc = "eval_iter"
    /\ val_iter < val_size
    /\ stat_ops' = ValStatOps(cfg, writer)
    /\ val_meter' = UpdateStats(val_meter,
            MeterEntry(cur_epoch, val_iter, Item(AllReduce(cfg, Metric))))
    /\ val_iter' = val_iter + 1
    /\ UNCHANGED << envVars, lrVars, rankVars, raised, buildVars,
                    epoch_params, epochVars, phaseVars, pc, cur_iter, batch,
                    grad, trainState, loss_scaler, bn_stats, ops, handed,
                    blockGrads, train_meter, train_report, val_report >>

\* eval_epoch, lines 359-374, and the loop's increment: the epoch's statistics
\* are logged and the meter is reset.
EvalEnd ==
    /\ pc = "eval_iter"
    /\ val_iter >= val_size
    /\ val_report' = LogEpochStats(val_meter)
    /\ val_meter' = Reset
    /\ cur_epoch' = cur_epoch + 1
    /\ pc' = "loop"
    /\ UNCHANGED << envVars, lrVars, rankVars, raised, buildVars,
                    epoch_params, phaseVars, is_checkp_epoch, is_eval_epoch,
                    trained, epochLog, cur_iter, batch, grad, trainState,
                    loss_scaler, bn_stats, ops, handed, blockGrads, val_iter,
                    train_meter, train_report, stat_ops >>

\* train, lines 545 and 609: range(start_epoch, MAX_EPOCH) is exhausted.
TrainDone ==
    /\ pc = "loop"
    /\ cur_epoch >= cfg.MAX_EPOCH
    /\ pc' = "done"
    /\ UNCHANGED << envVars, lrVars, rankVars, raised, buildVars,
                    epoch_params, meterVars, epochVars, phaseVars, cur_iter,
                    batch, grad, trainState, loss_scaler, bn_stats, ops,
                    handed, blockGrads >>

\* Mutant of Raise: the exception is caught and the loop goes on.
RaiseAndContinue ==
    /\ pc \notin { "loop", "done", "failed" }
    /\ raised' = pc
    /\ UNCHANGED << envVars, lrVars, rankVars, buildVars, meterVars,
                    epochVars, phaseVars, pc, epoch_params, cur_iter, batch,
                    grad, trainState, loss_scaler, bn_stats, ops, handed,
                    blockGrads >>

\* train_epoch, lines 62-219, eval_epoch, lines 240-374, and train, lines
\* 574-607: no statement of the loops is inside a try block, so an exception
\* raised by the step that is next leaves all of them and ends the run.
Raise ==
    /\ pc \notin { "loop", "done", "failed" }
    /\ raised' = pc
    /\ pc' = "failed"
    /\ UNCHANGED << envVars, lrVars, rankVars, buildVars, meterVars,
                    epochVars, phaseVars, epoch_params, cur_iter, batch, grad,
                    trainState, loss_scaler, bn_stats, ops, handed,
                    blockGrads >>

Next ==
    \/ EpochBegin
    \/ EpochRebuild
    \/ TrainIter
    \/ EpochEnd
    \/ PreciseBN
    \/ SaveCheckpoint
    \/ EvalEpoch
    \/ EvalIter
    \/ EvalEnd
    \/ TrainDone
    \/ Raise

Spec == Init /\ [][Next]_vars

\* ------------------------------------------- the workers of one train_epoch
\* Mutant of WorkerNumIters: the block length depends on the rank.
WorkerNumItersByRank(w) == NumIters(cfg) + w - 1

\* lines 55-56 as worker w computes them: from the configuration alone.
WorkerNumIters(w) == NumIters(cfg)

\* lines 94 and 114: whether worker w runs iteration i inside model.no_sync().
WorkerChoice(w, i) ==
    IF ~SyncPath(cfg) /\ NoSyncIter(i, WorkerNumIters(w))
    THEN "no_sync" ELSE "sync"

\* lines 62-94 and 110-114: worker w fetches its next batch and chooses.
WorkerIterBegin(w) ==
    /\ rank[w].pc = "iter"
    /\ rank[w].iter < data_size
    /\ rank' = [rank EXCEPT
          ![w].pc = IF WorkerChoice(w, rank[w].iter) = "no_sync"
                    THEN "nosync_backward" ELSE "sync_backward",
          ![w].choice = Append(@, WorkerChoice(w, rank[w].iter))]
    /\ UNCHANGED << trainVars, collectives >>

\* lines 115-126: forward and backward inside no_sync touch no other worker.
\* Line 128 is false after them.
WorkerNoSyncBackward(w) ==
    /\ rank[w].pc = "nosync_backward"
    /\ rank' = [rank EXCEPT ![w].pc = "stats"]
    /\ UNCHANGED << trainVars, collectives >>

\* lines 97 and 129-139: the worker enters the synchronized backward pass
\* and waits in its gradient all-reduce.
WorkerSyncBackward(w) ==
    /\ rank[w].pc = "sync_backward"
    /\ rank' = [rank EXCEPT ![w].pc = "sync_wait", ![w].entered = @ + 1]
    /\ UNCHANGED << trainVars, collectives >>

\* The gradient all-reduce completes once every worker has entered it.
AllReduceGradients ==
    /\ \A w \in Workers : rank[w].pc = "sync_wait"
    /\ rank' = [w \in Workers |-> [rank[w] EXCEPT !.pc = "step"]]
    /\ collectives' = collectives + 1
    /\ UNCHANGED trainVars

\* lines 99-108 and 141-162: the worker steps its optimizer.
WorkerStep(w) ==
    /\ rank[w].pc = "step"
    /\ rank' = [rank EXCEPT ![w].pc = "stats", ![w].steps = @ + 1]
    /\ UNCHANGED << trainVars, collectives >>

\* lines 164-215: the iteration ends.
WorkerStats(w) ==
    /\ rank[w].pc = "stats"
    /\ rank' = [rank EXCEPT ![w].pc = "iter", ![w].iter = @ + 1]
    /\ UNCHANGED << trainVars, collectives >>

\* lines 217-219: the worker's loader is exhausted.
WorkerEpochEnd(w) ==
    /\ rank[w].pc = "iter"
    /\ rank[w].iter >= data_size
    /\ rank' = [rank EXCEPT ![w].pc = "done"]
    /\ UNCHANGED << trainVars, collectives >>

WorkersNext ==
    \/ \E w \in Workers : WorkerIterBegin(w)
    \/ \E w \in Workers : WorkerNoSyncBackward(w)
    \/ \E w \in Workers : WorkerSyncBackward(w)
    \/ AllReduceGradients
    \/ \E w \in Workers : WorkerStep(w)
    \/ \E w \in Workers : WorkerStats(w)
    \/ \E w \in Workers : WorkerEpochEnd(w)

\* The workers of one process group run one epoch on the same configuration
\* and loaders of the same length.
WorkersSpec == InitStep /\ [][WorkersNext]_vars

\* The interpreter runs the script to its end: every enabled step is taken.
FairSpec ==
    (InitEpochs \/ InitLongCycle) /\ [][Next]_vars /\ WF_vars(Next)

\* ---------------------------------------------------------------- claims
IsPrefix(a, b) == Len(a) <= Len(b) /\ SubSeq(b, 1, Len(a)) = a

\* The number of times op was called in this iteration.
Calls(op) == Cardinality({ i \in 1..Len(ops) : ops[i] = op })

\* The place of the first call of op in this iteration; 0 if there is none.
Pos(op) ==
    IF Calls(op) = 0 THEN 0
    ELSE CHOOSE i \in 1..Len(ops) :
            ops[i] = op /\ \A j \in 1..(i - 1) : ops[j] # op

\* Equality of two gradients as numbers, an absent one counting as zero.
SameValue(x, y) == x.num * y.den = y.num * x.den

Actual == cfg.NUM_SHARDS * cfg.BATCH_SIZE

Target == cfg.GLOBAL_BATCH_SIZE

Accumulating == Actual < Target

\* The calls of one synchronized step of the actual >= target path.
PlainStepOps ==
    IF cfg.USE_MIXED_PRECISION
    THEN << "forward", "zero_grad", "backward_sync", "scaler_step",
            "scaler_update" >>
    ELSE << "forward", "zero_grad", "backward_sync", "step" >>

\* C1: when actual >= target, every iteration zeroes the gradients, runs one
\* forward and one synchronized backward, and steps the optimizer once (via
\* the scaler under mixed precision) with the undivided gradient of its batch;
\* no division and no no_sync backward ever happens.
C1_SyncPathStepsEveryIteration ==
    Actual >= Target =>
        /\ IsPrefix(ops, PlainStepOps)
        /\ pc = "stats" =>
              /\ ops = PlainStepOps
              /\ handed.stepped
              /\ \A p \in Params : SameValue(handed.g[p], batch[p])

C1_Witness ==
    /\ Actual = Target
    /\ cfg.USE_MIXED_PRECISION
    /\ pc = "stats"
    /\ cur_iter = 1
    /\ cur_epoch = 1
    /\ handed.stepped
    /\ handed.g["p1"].has

\* The sum over the block of the batches' gradients of parameter p.
RECURSIVE BlockSum(_, _)
BlockSum(bs, p) ==
    IF bs = << >> THEN 0
    ELSE bs[1][p].num + BlockSum(Tail(bs), p)

\* C2: in accumulation mode the gradient the optimizer steps with at the end
\* of a block is the sum of the block's num_iters batch gradients divided by
\* num_iters, the gradient of the mean loss over the concatenated batches.
C2_BlockGradientIsMean ==
    (Accumulating /\ handed.stepped) =>
        /\ Len(blockGrads) = Target \div Actual
        /\ \A p \in Params :
              handed.g[p].num * (Target \div Actual)
                 = BlockSum(blockGrads, p) * handed.g[p].den

C2_Witness ==
    /\ Accumulating
    /\ Target \div Actual = 2
    /\ cfg.USE_MIXED_PRECISION
    /\ loss_scaler.scale = 4
    /\ handed.stepped
    /\ cur_iter = 3
    /\ cur_epoch = 1
    /\ BlockSum(blockGrads, "p1") = 3
    /\ handed.g["p1"].has

\* C3: in accumulation mode iteration cur_iter runs inside no_sync, without
\* optimizer step, exactly when (cur_iter + 1) is no multiple of num_iters;
\* otherwise its backward is synchronized and the division by num_iters comes
\* after that backward and before the optimizer step.
C3_BlocksOfNumIters ==
    (Accumulating /\ pc = "stats") =>
        IF (cur_iter + 1) % (Target \div Actual) # 0
        THEN /\ Calls("backward_nosync") = 1
             /\ Calls("backward_sync") = 0
             /\ Calls("divide") = 0
             /\ Calls("step") + Calls("scaler_step") = 0
             /\ ~handed.stepped
        ELSE /\ Calls("backward_nosync") = 0
             /\ Calls("backward_sync") = 1
             /\ Calls("divide") = 1
             /\ Calls("step") + Calls("scaler_step") = 1
             /\ handed.stepped
             /\ Pos("backward_sync") < Pos("divide")
             /\ Pos("divide") < Pos("step") + Pos("scaler_step")

C3_Witness ==
    /\ Accumulating
    /\ Target \div Actual = 3
    /\ pc = "stats"
    /\ cur_iter = 2
    /\ Calls("divide") = 1
    /\ handed.stepped

\* C4: in accumulation mode num_iters is target / actual, so the iterations
\* that enter one optimizer step hold GLOBAL_BATCH_SIZE samples:
\* num_iters * (NUM_SHARDS * TRAIN.BATCH_SIZE) = GLOBAL_BATCH_SIZE.
C4_StepCoversTargetBatch ==
    (Accumulating /\ handed.stepped) =>
        /\ NumIters(cfg) * Actual = Target
        /\ Len(blockGrads) * Actual = Target

\* The calls of the synchronized, block-final iteration of the accumulation
\* path under mixed precision.
ScaledBlockEndOps ==
    << "forward", "backward_sync", "unscale", "divide", "scaler_step",
       "scaler_update", "zero_grad" >>

\* The calls of the iteration without the zero_grad of the epoch's first
\* iteration.
OpsAfterHead == IF cur_iter = 0 /\ ops # << >> THEN Tail(ops) ELSE ops

\* C5: under mixed precision in accumulation mode a block-final iteration
\* calls, in this order, scaled backward, unscale_, the division, scaler.step,
\* scaler.update, zero_grad; unscale_ is called once between two scaler
\* updates; an iteration inside no_sync calls none of unscale_, step, update.
C5_ScalerOrder ==
    (Accumulating /\ cfg.USE_MIXED_PRECISION) =>
        /\ loss_scaler.unscaled <= 1
        /\ pc = "acc_update" => loss_scaler.unscaled = 1
        /\ pc = "stats" =>
              IF (cur_iter + 1) % (Target \div Actual) = 0
              THEN /\ OpsAfterHead = ScaledBlockEndOps
                   /\ loss_scaler.unscaled = 0
              ELSE /\ Calls("unscale") = 0
                   /\ Calls("scaler_step") = 0
                   /\ Calls("scaler_update") = 0
                   /\ loss_scaler.unscaled = 0

C5_Witness ==
    /\ Accumulating
    /\ cfg.USE_MIXED_PRECISION
    /\ Target \div Actual = 2
    /\ pc = "stats"
    /\ cur_iter = 3
    /\ ops = ScaledBlockEndOps
    /\ params = 2

\* The division step leaves an absent gradient absent and divides a present
\* one by num_iters.
DividedRight(p) ==
    IF grad[p].has
    THEN /\ grad'[p].has
         /\ grad'[p].num * grad[p].den * (Target \div Actual)
               = grad[p].num * grad'[p].den
    ELSE ~grad'[p].has

\* C6: the division step, unless it raises, skips a parameter whose gradient
\* is absent, which stays absent, divides every present gradient by
\* num_iters, once in the iteration, and the optimizer step follows all the
\* same.
C6_AbsentGradientSkipped ==
    /\ [][(pc = "acc_divide" /\ pc' # "failed") =>
            /\ \A p \in Params : DividedRight(p)
            /\ pc' = "acc_step"]_vars
    /\ [](pc = "acc_zero_grad" => (handed.stepped /\ Calls("divide") = 1))

C6_Witness ==
    /\ pc = "acc_zero_grad"
    /\ Target \div Actual = 2
    /\ handed.stepped
    /\ ~handed.g["p2"].has
    /\ handed.g["p1"].has
    /\ handed.g["p1"].num = 2
    /\ handed.g["p1"].den = 2

\* The place of a phase in the order of an epoch.
Rank(ph) ==
    CASE ph = "train" -> 1
      [] ph = "precise_bn" -> 2
      [] ph = "checkpoint" -> 3
      [] ph = "eval" -> 4

Ran(ph) == \E i \in 1..Len(epochLog) : epochLog[i] = ph

\* Statistics recomputed in epoch e, when the recomputation had batches.
SeesPrecise(r) ==
    ( /\ cfg.USE_PRECISE_STATS
      /\ has_bn
      /\ cfg.NUM_BATCHES_PRECISE > 0
      /\ precise_bn_loader.len > 0 )
    => r.bn = [kind |-> "precise", epoch |-> r.epoch]

\* C7: every epoch runs train (a full pass), then precise BN, then checkpoint,
\* then evaluation; precise BN runs only if a checkpoint or an evaluation is
\* due, USE_PRECISE_STATS is set and the model has normalization modules; the
\* checkpoint runs iff due, the evaluation iff due; so what is saved or
\* evaluated holds the statistics recomputed in its epoch.
C7_EpochPhaseOrder ==
    /\ \A i, j \in 1..Len(epochLog) :
          i < j => Rank(epochLog[i]) < Rank(epochLog[j])
    /\ epochLog # << >> => (epochLog[1] = "train" /\ cur_iter = data_size)
    /\ (pc = "loop" /\ epochLog # << >>) =>
          /\ Ran("precise_bn") =>
                ( /\ is_checkp_epoch \/ is_eval_epoch
                  /\ cfg.USE_PRECISE_STATS
                  /\ has_bn )
          /\ Ran("checkpoint") <=> is_checkp_epoch
          /\ Ran("eval") <=> is_eval_epoch
    /\ \A r \in saved \cup evaluated : SeesPrecise(r)

C7_Witness ==
    /\ pc = "loop"
    /\ epochLog = << "train", "precise_bn", "checkpoint", "eval" >>
    /\ cur_epoch = 2
    /\ data_size = 2
    /\ \E r \in evaluated :
          r.epoch = 1 /\ r.bn = [kind |-> "precise", epoch |-> 1]

\* The epochs of range(start_epoch, MAX_EPOCH) trained so far.
TrainedInOrder ==
    /\ \A i \in 1..Len(trained) :
          /\ trained[i] = start_epoch + i - 1
          /\ trained[i] < cfg.MAX_EPOCH
    /\ pc = "done" =>
          Len(trained) = IF start_epoch >= cfg.MAX_EPOCH THEN 0
                         ELSE cfg.MAX_EPOCH - start_epoch

\* C8: the epoch loop ends once MAX_EPOCH is reached, having trained every
\* epoch of [start_epoch, MAX_EPOCH) once, in increasing order, and no other;
\* it trains nothing when start_epoch >= MAX_EPOCH. A run in which a step
\* raises ends there instead, having trained a prefix of that range.
C8_EpochLoopTerminates ==
    /\ []TrainedInOrder
    /\ <>(pc = "done" \/ pc = "failed")

C8_Witness ==
    /\ pc = "done"
    /\ start_epoch = 0
    /\ cfg.MAX_EPOCH = 2
    /\ trained = << 0, 1 >>

\* The optimizer steps of the first k iterations of an epoch.
StepsIn(k) == IF Actual >= Target THEN k ELSE k \div (Target \div Actual)

InIteration ==
    pc \notin { "loop", "iter", "precise_bn", "checkpoint", "eval",
                "eval_iter", "done", "failed" }

\* C10: parameters and optimizer statistics change in every synchronized
\* iteration, by one optimizer step, and in no other: an iteration inside
\* no_sync ends with both as it found them.
C10_TrainStateChangesOnSyncOnly ==
    /\ opt_state = params
    /\ (~InIteration /\ pc # "failed") =>
          params = epoch_params + StepsIn(cur_iter)
    /\ pc = "stats" => params = epoch_params + StepsIn(cur_iter + 1)
    /\ (InIteration \/ pc = "failed") =>
          \/ params = epoch_params + StepsIn(cur_iter)
          \/ params = epoch_params + StepsIn(cur_iter + 1)

C10_Witness ==
    /\ Accumulating
    /\ Target \div Actual = 3
    /\ pc = "stats"
    /\ cur_iter = 3
    /\ cur_epoch = 1
    /\ Calls("backward_nosync") = 1
    /\ params = 2

\* The updates of the first k iterations of epoch e, once each and in order.
UpdatesOf(m, e, k) ==
    /\ Len(m) = k
    /\ \A j \in 1..k : m[j].epoch = e /\ m[j].iter = j - 1

\* C11: inside train_epoch the train meter holds one update for each finished
\* iteration of this epoch and nothing else, so it holds nothing at the first
\* iteration; log_epoch_stats reports the updates of the whole epoch, one per
\* batch, and leaves the meter empty. The validation meter does the same
\* inside eval_epoch.
C11_MeterHoldsItsEpochOnly ==
    /\ (pc = "iter" \/ InIteration) => UpdatesOf(train_meter, cur_epoch, cur_iter)
    /\ pc \in { "precise_bn", "checkpoint", "eval", "eval_iter" } =>
          /\ train_meter = << >>
          /\ UpdatesOf(train_report, cur_epoch, data_size)
    /\ pc = "eval_iter" => UpdatesOf(val_meter, cur_epoch, val_iter)
    /\ pc \notin { "eval_iter", "failed" } => val_meter = << >>
    /\ (pc = "loop" /\ epochLog # << >>
           /\ epochLog[Len(epochLog)] = "eval") =>
          UpdatesOf(val_report, cur_epoch - 1, val_size)

C11_Witness ==
    /\ pc = "sync_forward"
    /\ cur_epoch = 1
    /\ cur_iter = 0
    /\ train_meter = << >>
    /\ Len(train_report) = 2
    /\ Len(val_report) = 2

\* The trainer in use was built for the configuration in use, and the training
\* state in it was loaded after it was built.
TrainerIsCurrent ==
    /\ \A o \in Trainer : built[o].shape = cfg.LONG_CYCLE_SHAPE
    /\ \A o \in Trainer : built[o].count = cfg.LONG_CYCLE_SHAPE
    /\ reloaded = cfg.LONG_CYCLE_SHAPE

\* C12: the configuration changes only between two epochs; a change replaces
\* all seven objects of the trainer by ones built for the new configuration
\* and loads a checkpoint into them before the epoch's first iteration, or
\* ends the run; without a change nothing is replaced or reloaded.
C12_RebuildOnConfigChangeOnly ==
    /\ []((pc = "iter" \/ InIteration) => TrainerIsCurrent)
    /\ [][cfg' # cfg =>
            /\ pc = "loop"
            /\ pc' \in { "iter", "failed" }
            /\ \A o \in Trainer : built'[o].count = built[o].count + 1
            /\ pc' = "iter" =>
                  /\ reloaded' = cfg'.LONG_CYCLE_SHAPE
                  /\ cur_iter' = 0]_vars
    /\ [][cfg' = cfg => (built' = built /\ reloaded' = reloaded)]_vars

C12_Witness ==
    /\ pc = "sync_forward"
    /\ cur_epoch = 1
    /\ cur_iter = 0
    /\ cfg.LONG_CYCLE_SHAPE = 1
    /\ cfg.BATCH_SIZE = 2
    /\ TrainerIsCurrent
    /\ saved # {}
    /\ params = 2
    /\ data_size = 1

\* The steps of train_epoch.
TrainingSteps ==
    { "iter", "sync_forward", "sync_zero_grad", "sync_backward", "sync_step",
      "sync_update", "acc_head", "nosync_forward", "nosync_backward",
      "acc_forward", "acc_backward", "acc_unscale", "acc_divide", "acc_step",
      "acc_update", "acc_zero_grad", "stats" }

\* C13: a step that raises ends the run: nothing runs after it, neither a
\* retry nor a later iteration, phase or epoch; an epoch whose training or
\* precise-statistics pass raised has no checkpoint.
C13_FailureEndsTheRun ==
    /\ [](raised # "" <=> pc = "failed")
    /\ [](raised \in TrainingSteps \cup { "precise_bn", "checkpoint",
                                          "len(precise_bn_loader)" } =>
             \A r \in saved : r.epoch # cur_epoch)
    /\ [][pc # "failed"]_vars

C13_Witness ==
    /\ pc = "failed"
    /\ raised = "acc_backward"
    /\ cur_epoch = 1
    /\ cur_iter = 1
    /\ \E r \in saved : r.epoch = 0

\* The metric calls of an iteration are in order: each copy to the host comes
\* right after the all-reduce of its values if there are several devices and
\* without one otherwise, and both come before the meter and tensorboard.
ReducedBeforeUse ==
    \A i \in 1..Len(stat_ops) :
        /\ stat_ops[i] = "item" =>
              (cfg.NUM_GPUS > 1 <=> (i > 1 /\ stat_ops[i - 1] = "all_reduce"))
        /\ stat_ops[i] = "all_reduce" =>
              /\ cfg.NUM_GPUS > 1
              /\ i < Len(stat_ops)
              /\ stat_ops[i + 1] = "item"
        /\ stat_ops[i] \in { "all_reduce", "item" } =>
              \A j \in 1..Len(stat_ops) :
                  stat_ops[j] \in { "update_stats", "add_scalars" } => i < j

\* What the meter m holds was combined over the devices iff there are several,
\* and was copied to the host.
HoldsReduced(m) ==
    \A j \in 1..Len(m) :
        /\ m[j].value.host
        /\ m[j].value.reduced <=> cfg.NUM_GPUS > 1

\* C14: in every training and evaluation iteration the metrics are
\* all-reduced iff NUM_GPUS > 1, before .item(), before update_stats and
\* before tensorboard; a meter holds reduced values iff NUM_GPUS > 1.
C14_AllReduceBeforeHost ==
    /\ ReducedBeforeUse
    /\ stat_ops # << >> =>
          Cardinality({ i \in 1..Len(stat_ops) : stat_ops[i] = "update_stats" })
             = 1
    /\ HoldsReduced(train_meter)
    /\ HoldsReduced(val_meter)
    /\ HoldsReduced(train_report)
    /\ HoldsReduced(val_report)

C14_Witness ==
    /\ pc = "eval_iter"
    /\ cfg.DATASET = "Epickitchens"
    /\ cfg.NUM_GPUS = 2
    /\ writer
    /\ val_iter = 2
    /\ Cardinality({ i \in 1..Len(stat_ops) : stat_ops[i] = "all_reduce" }) = 3
    /\ Len(val_meter) = 2
    /\ val_meter[2].value.reduced
    /\ Len(train_report) = 2
    /\ train_report[1].value.reduced

\* No parameter holds an accumulated gradient.
GradsAreZero == \A p \in Params : ~grad[p].has \/ grad[p].num = 0

\* The backward pass of this iteration has not run yet.
BeforeBackward ==
    pc \in { "nosync_forward", "nosync_backward", "acc_forward", "acc_backward" }

\* C15: in accumulation mode the first backward pass of every block, the
\* first of an epoch included, adds to gradients that are zero; the gradient
\* an optimizer step is handed is the mean of the num_iters batches of the
\* block that ends with it; an epoch takes floor(data_size / num_iters)
\* optimizer steps, and what a trailing partial block accumulated is stepped
\* by none.
C15_BlocksStartFromZero ==
    Accumulating =>
        /\ (BeforeBackward /\ cur_iter % NumIters(cfg) = 0) => GradsAreZero
        /\ (handed.stepped /\ InIteration) =>
              /\ (cur_iter + 1) % NumIters(cfg) = 0
              /\ Len(blockGrads) = NumIters(cfg)
              /\ \A p \in Params :
                    handed.g[p].has =>
                        handed.g[p].num * NumIters(cfg)
                           = BlockSum(blockGrads, p) * handed.g[p].den
        /\ pc \in { "precise_bn", "checkpoint", "eval", "eval_iter" } =>
              params = epoch_params + data_size \div NumIters(cfg)

C15_Witness ==
    /\ Accumulating
    /\ NumIters(cfg) = 2
    /\ data_size = 3
    /\ cur_epoch = 1
    /\ cur_iter = 0
    /\ pc = "nosync_forward"
    /\ Calls("zero_grad") = 1
    /\ GradsAreZero
    /\ params = 1

\* Two workers made the same choice at every iteration both have begun.
SameChoices(v, w) ==
    \A i \in 1..Min(Len(rank[v].choice), Len(rank[w].choice)) :
        rank[v].choice[i] = rank[w].choice[i]

\* C16: workers on the same configuration and number of batches choose
\* between the synchronized and the no_sync path alike at every iteration
\* index; no worker waits in a gradient all-reduce that another worker passes
\* by; after the epoch every worker has stepped once per gradient all-reduce.
C16_WorkersChooseAlike ==
    /\ \A v, w \in Workers : SameChoices(v, w)
    /\ \A v, w \in Workers :
          (rank[v].pc = "sync_wait" /\ rank[w].iter = rank[v].iter) =>
              rank[w].pc \notin { "nosync_backward", "stats" }
    /\ \A v, w \in Workers :
          (rank[v].pc = "sync_wait" /\ rank[w].iter > rank[v].iter) =>
              rank[w].entered >= rank[v].entered
    /\ \A v, w \in Workers :
          (rank[v].pc = "sync_wait" /\ rank[w].pc = "done") =>
              rank[w].entered >= rank[v].entered
    /\ \A w \in Workers :
          /\ rank[w].steps <= collectives
          /\ collectives <= rank[w].entered
    /\ (\A w \in Workers : rank[w].pc = "done") =>
          /\ collectives = StepsIn(data_size)
          /\ \A w \in Workers : rank[w].steps = collectives

C16_Witness ==
    /\ Accumulating
    /\ NumIters(cfg) = 2
    /\ data_size = 4
    /\ rank[1].pc = "sync_wait"
    /\ rank[1].iter = 3
    /\ rank[2].pc = "nosync_backward"
    /\ rank[2].iter = 2
    /\ collectives = 1

\* C17: the precise-statistics phase consumes at most
\* min(BN.NUM_BATCHES_PRECISE, len(precise_bn_loader)) batches, calls neither
\* backward nor the optimizer, and leaves parameters, optimizer state and
\* accumulated gradients as they are.
C17_PreciseBNIsForwardOnly ==
    [][pc = "precise_bn" =>
        /\ bn_batches' <= cfg.NUM_BATCHES_PRECISE
        /\ bn_batches' <= precise_bn_loader.len
        /\ params' = params
        /\ opt_state' = opt_state
        /\ grad' = grad
        /\ loss_scaler' = loss_scaler
        /\ ops' = ops
        /\ handed' = handed]_vars

C17_Witness ==
    /\ pc = "checkpoint"
    /\ Ran("precise_bn")
    /\ cfg.NUM_BATCHES_PRECISE = 1
    /\ precise_bn_loader.len = 1
    /\ bn_batches = 1
    /\ bn_stats = [kind |-> "precise", epoch |-> 1]
    /\ cur_epoch = 1
    /\ grad["p1"].has
    /\ grad["p1"].num = 2
    /\ params = 2

\* C18: whenever the loop is about to call calculate_and_update_precise_bn,
\* precise_bn_loader is a loader and not None, after a multigrid rebuild too;
\* the call never fails on len(None).
C18_PreciseLoaderExists ==
    /\ cfg.USE_PRECISE_STATS => precise_bn_loader.built
    /\ (pc = "precise_bn" /\ NeedPreciseBN) => precise_bn_loader.built
    /\ raised # "len(precise_bn_loader)"

C18_Witness ==
    /\ pc = "checkpoint"
    /\ Ran("precise_bn")
    /\ cfg.LONG_CYCLE_SHAPE = 1
    /\ cur_epoch = 1
    /\ built["precise_bn_loader"].count = 1
    /\ precise_bn_loader.built
    /\ bn_batches = 1

\* C19: from the start of an iteration's forward pass to its end the optimizer
\* holds the schedule's value at cur_epoch + cur_iter / data_size, on both
\* paths, so an optimizer step uses the learning rate of its own iteration;
\* with data_size constant, the tensorboard steps of the training writes are
\* data_size * cur_epoch + cur_iter, one per iteration, strictly increasing.
C19_StepUsesIterationLr ==
    /\ InIteration => lr = GetEpochLr(cur_epoch, cur_iter, data_size)
    /\ (InIteration /\ handed.stepped) =>
          /\ handed.lr.set
          /\ handed.lr.num = cur_epoch * data_size + cur_iter
          /\ handed.lr.den = data_size
    /\ ~cfg.LONG_CYCLE =>
          \A i, j \in 1..Len(tb_steps) : i < j => tb_steps[i] < tb_steps[j]
    /\ (~cfg.LONG_CYCLE /\ writer /\ (pc = "iter" \/ InIteration)) =>
          Len(tb_steps) = (cur_epoch - start_epoch) * data_size + cur_iter

C19_Witness ==
    /\ Accumulating
    /\ NumIters(cfg) = 2
    /\ pc = "stats"
    /\ cur_epoch = 1
    /\ cur_iter = 1
    /\ handed.stepped
    /\ handed.lr = [set |-> TRUE, num |-> 3, den |-> 2]
    /\ writer
    /\ tb_steps = << 0, 1, 2 >>
====
